---- MODULE Spec2Model ----
(***************************************************************************)
(* Model of src/Parking-tracking.cpp: a multi-floor parking facility with  *)
(* slots, floors, tickets, billing on exit and a status report.            *)
(*                                                                         *)
(* Money is in whole dollars (every rate and cap of the source is a whole  *)
(* number), clock readings are whole seconds of std::chrono::system_clock. *)
(* ParkingSlot::occupiedSince is written at line 99 and never read, so it  *)
(* is not part of the modelled state.                                      *)
(***************************************************************************)
EXTENDS Integers, Sequences, FiniteSets, TLC

\* floors, activeTickets, ticketCounter, totalRevenue: the members of ParkingSystem.
\* now: the reading std::chrono::system_clock::now() returns.
\* out: what the last operation wrote to std::cout.
\* issued: the ticket ids printed so far by "Vehicle parked. Ticket ID: ", in order.
\* quoted: the getHourlyRate calls made so far on vehicles built directly from the
\*         Vehicle classes, each as the vehicle and the rate returned.
VARIABLES floors, activeTickets, ticketCounter, totalRevenue, now, out, issued, quoted

vars == <<floors, activeTickets, ticketCounter, totalRevenue, now, out, issued, quoted>>

(* ---------------------------- constants ------------------------------- *)

CAR_HOURLY_RATE == 20

BIKE_HOURLY_RATE == 10

DAILY_MAX == 200

MIN_CHARGE_HOURS == 1

SECONDS_PER_HOUR == 3600

TICKET_COUNTER_INIT == 1000

\* The arguments of ParkingSystem parking(3, 10, 5) in main.
MAIN_FLOORS == 3

MAIN_CARS_PER_FLOOR == 10

MAIN_BIKES_PER_FLOOR == 5

VehicleType == {"CAR", "BIKE", "HANDICAPPED", "ELECTRIC"}

SlotStatus == {"FREE", "OCCUPIED", "RESERVED", "MAINTENANCE"}

(* ------------------------------ bounds -------------------------------- *)

\* The facility of the general specification: NumFloors floors, each with
\* CarsPerFloor car slots followed by BikesPerFloor bike slots.
NumFloors == 2

CarsPerFloor == 2

BikesPerFloor == 1

\* At most MaxTickets tickets are issued in a behaviour.
MaxTickets == 3

\* At most MaxMainTickets tickets are issued in a behaviour of the facility of main.
MaxMainTickets == 11

\* Registration strings typed at the prompt.
Registrations == {"ABC-1", "XYZ-2"}

\* Type selectors typed at the prompt: 1 is Car, every other value is Bike.
TypeChoices == {1, 2, 3}

\* Readings of the system clock, in seconds, of the general specification.
ClockReadings == {0, 1}

\* The billing specification: one registration, and clock readings whose
\* differences are 0, one second, one hour, one hour and a second, and 19
\* hours, 20 hours and 20 hours and a second: fractions of an hour, and
\* below, at and above the daily cap for the Bike rate (above it for the Car
\* rate).
BillingRegistrations == {"ABC-1"}

BillingClockReadings == {0, 1, SECONDS_PER_HOUR + 1, 20 * SECONDS_PER_HOUR + 1}

(* ------------------------------ helpers ------------------------------- *)

Min(S) == CHOOSE x \in S : \A y \in S : x <= y

\* std::ceil(n / d) for integers n and d > 0 (rounds towards plus infinity).
Ceil(n, d) == -((-n) \div d)

MinOf(a, b) == IF a <= b THEN a ELSE b

(* ------------------------------ vehicles ------------------------------ *)

\* The empty std::unique_ptr<Vehicle>.
NullVehicle == [cls |-> "nullptr", registration |-> "", type |-> "NONE"]

Car(reg) == [cls |-> "Car", registration |-> reg, type |-> "CAR"]

Bike(reg) == [cls |-> "Bike", registration |-> reg, type |-> "BIKE"]

ElectricCar(reg) == [cls |-> "ElectricCar", registration |-> reg, type |-> "ELECTRIC"]

HandicappedVehicle(reg, baseType) == [cls |-> "HandicappedVehicle", registration |-> reg, type |-> baseType]

\* Mutant of getHourlyRate: HandicappedVehicle halves the Car rate whatever its base type.
getHourlyRate_handicappedCarOnly(v) ==
    CASE v.cls = "Car" -> CAR_HOURLY_RATE
      [] v.cls = "Bike" -> BIKE_HOURLY_RATE
      [] v.cls = "ElectricCar" -> (CAR_HOURLY_RATE * 8) \div 10
      [] v.cls = "HandicappedVehicle" -> (CAR_HOURLY_RATE * 5) \div 10

\* The virtual getHourlyRate, dispatched on the vehicle's class.
getHourlyRate(v) ==
    CASE v.cls = "Car" -> CAR_HOURLY_RATE
      [] v.cls = "Bike" -> BIKE_HOURLY_RATE
      [] v.cls = "ElectricCar" -> (CAR_HOURLY_RATE * 8) \div 10
      [] v.cls = "HandicappedVehicle" ->
            IF v.type = "CAR" THEN (CAR_HOURLY_RATE * 5) \div 10
            ELSE (BIKE_HOURLY_RATE * 5) \div 10

(* -------------------------------- slot -------------------------------- *)

ParkingSlot(slotId, flr, type) ==
    [id |-> slotId, floor |-> flr, status |-> "FREE", allowedType |-> type,
     currentVehicle |-> NullVehicle]

\* Mutant of isCompatible: the category check forgotten.
isCompatible_ignoresType(slot, vehicleType) == slot.status = "FREE"

isCompatible(slot, vehicleType) ==
    slot.status = "FREE" /\ slot.allowedType = vehicleType

\* Mutant of ParkingSlot::parkVehicle: status = SlotStatus::OCCUPIED forgotten.
SlotParkVehicle_statusNotSet(slot, vehicle) ==
    IF ~isCompatible(slot, vehicle.type)
    THEN [ok |-> FALSE, slot |-> slot]
    ELSE [ok |-> TRUE, slot |-> [slot EXCEPT !.currentVehicle = vehicle]]

\* ParkingSlot::parkVehicle: the result and the slot afterwards.
SlotParkVehicle(slot, vehicle) ==
    IF ~isCompatible(slot, vehicle.type)
    THEN [ok |-> FALSE, slot |-> slot]
    ELSE [ok |-> TRUE,
          slot |-> [slot EXCEPT !.currentVehicle = vehicle, !.status = "OCCUPIED"]]

\* ParkingSlot::vacate: the vehicle moved out and the slot afterwards.
vacate(slot) ==
    [vehicle |-> slot.currentVehicle,
     slot |-> [slot EXCEPT !.currentVehicle = NullVehicle, !.status = "FREE"]]

(* ------------------------------- ticket ------------------------------- *)

\* Mutant of the Ticket constructor: the floor and slot arguments stored the wrong way round.
Ticket_swapsFloorAndSlot(ticketId, reg, type, flr, slot, clock) ==
    [id |-> ticketId, vehicleReg |-> reg, vehicleType |-> type, floor |-> slot,
     slotId |-> flr, entryTime |-> clock, exitTime |-> 0, isActive |-> TRUE]

\* The Ticket constructor, reading the clock for entryTime.
Ticket(ticketId, reg, type, flr, slot, clock) ==
    [id |-> ticketId, vehicleReg |-> reg, vehicleType |-> type, floor |-> flr,
     slotId |-> slot, entryTime |-> clock, exitTime |-> 0, isActive |-> TRUE]

\* Ticket::exit, reading the clock for exitTime.
TicketExit(ticket, clock) ==
    [ticket EXCEPT !.exitTime = clock, !.isActive = FALSE]

\* The seconds between entry and end, which getParkingDuration divides by 3600.
ParkingSeconds(ticket, clock) ==
    (IF ticket.isActive THEN clock ELSE ticket.exitTime) - ticket.entryTime

(* -------------------------------- floor ------------------------------- *)

\* Mutant of the ParkingFloor constructor: the loop over bikeSlots forgotten.
ParkingFloor_noBikeSlots(floorNum, carSlots, bikeSlots) ==
    [floorNumber |-> floorNum,
     slots |-> [i \in 1..carSlots |-> ParkingSlot(i, floorNum, "CAR")],
     occupiedSlots |-> 0]

ParkingFloor(floorNum, carSlots, bikeSlots) ==
    [floorNumber |-> floorNum,
     slots |-> [i \in 1..(carSlots + bikeSlots) |->
                  ParkingSlot(i, floorNum, IF i <= carSlots THEN "CAR" ELSE "BIKE")],
     occupiedSlots |-> 0]

\* Mutant of findAvailableSlot: the scan keeps the last compatible slot, not the first.
findAvailableSlot_lastFree(floor, type) ==
    LET hits == {i \in 1..Len(floor.slots) : isCompatible(floor.slots[i], type)}
    IN IF hits = {} THEN 0 ELSE CHOOSE x \in hits : \A y \in hits : y <= x

\* The position in floor.slots of the slot findAvailableSlot returns, 0 for nullptr.
findAvailableSlot(floor, type) ==
    LET hits == {i \in 1..Len(floor.slots) : isCompatible(floor.slots[i], type)}
    IN IF hits = {} THEN 0 ELSE Min(hits)

\* Mutant of ParkingFloor::parkVehicle: occupiedSlots++ forgotten.
FloorParkVehicle_noIncrement(floor, slotId, vehicle) ==
    LET hits == {i \in 1..Len(floor.slots) :
                    floor.slots[i].id = slotId /\ SlotParkVehicle(floor.slots[i], vehicle).ok}
    IN IF hits = {} THEN [ok |-> FALSE, floor |-> floor]
       ELSE LET i == Min(hits)
            IN [ok |-> TRUE,
                floor |-> [floor EXCEPT !.slots[i] = SlotParkVehicle(floor.slots[i], vehicle).slot]]

\* ParkingFloor::parkVehicle: the result and the floor afterwards.
FloorParkVehicle(floor, slotId, vehicle) ==
    LET hits == {i \in 1..Len(floor.slots) :
                    floor.slots[i].id = slotId /\ SlotParkVehicle(floor.slots[i], vehicle).ok}
    IN IF hits = {} THEN [ok |-> FALSE, floor |-> floor]
       ELSE LET i == Min(hits)
            IN [ok |-> TRUE,
                floor |-> [floor EXCEPT !.slots[i] = SlotParkVehicle(floor.slots[i], vehicle).slot,
                                        !.occupiedSlots = floor.occupiedSlots + 1]]

\* Mutant of vacateSlot: the slot id test forgotten, so the first occupied slot
\* of the floor is vacated.
vacateSlot_anyOccupied(floor, slotId) ==
    LET hits == {i \in 1..Len(floor.slots) : floor.slots[i].status = "OCCUPIED"}
    IN IF hits = {} THEN floor
       ELSE LET i == Min(hits)
            IN [floor EXCEPT !.slots[i] = vacate(floor.slots[i]).slot,
                             !.occupiedSlots = floor.occupiedSlots - 1]

\* Mutant of vacateSlot: occupiedSlots-- forgotten.
vacateSlot_keepsCount(floor, slotId) ==
    LET hits == {i \in 1..Len(floor.slots) :
                    floor.slots[i].id = slotId /\ floor.slots[i].status = "OCCUPIED"}
    IN IF hits = {} THEN floor
       ELSE LET i == Min(hits)
            IN [floor EXCEPT !.slots[i] = vacate(floor.slots[i]).slot]

\* ParkingFloor::vacateSlot: the floor afterwards (the caller drops the vehicle).
vacateSlot(floor, slotId) ==
    LET hits == {i \in 1..Len(floor.slots) :
                    floor.slots[i].id = slotId /\ floor.slots[i].status = "OCCUPIED"}
    IN IF hits = {} THEN floor
       ELSE LET i == Min(hits)
            IN [floor EXCEPT !.slots[i] = vacate(floor.slots[i]).slot,
                             !.occupiedSlots = floor.occupiedSlots - 1]

getOccupiedSlots(floor) == floor.occupiedSlots

getTotalSlots(floor) == Len(floor.slots)

(* ------------------------------- system ------------------------------- *)

\* The ParkingSystem constructor: floors 1..numFloors.
ParkingSystem(numFloors, carsPerFloor, bikesPerFloor) ==
    [i \in 1..numFloors |-> ParkingFloor(i, carsPerFloor, bikesPerFloor)]

\* What the last operation printed: its message and the numbers in it.
NoOut ==
    [msg |-> "", ticket |-> 0, charge |-> 0, total |-> 0, occupied |-> 0, available |-> 0]

\* The state after the construction of the facility fs, at any of the clock readings.
InitAt(fs, readings) ==
    /\ floors = fs
    /\ activeTickets = <<>>
    /\ ticketCounter = TICKET_COUNTER_INIT
    /\ totalRevenue = 0
    /\ now \in readings
    /\ out = NoOut
    /\ issued = <<>>
    /\ quoted = {}

Init == InitAt(ParkingSystem(NumFloors, CarsPerFloor, BikesPerFloor), ClockReadings)

InitBilling ==
    InitAt(ParkingSystem(NumFloors, CarsPerFloor, BikesPerFloor), BillingClockReadings)

\* Mutant of NextTicketId: ticketCounter++ gives the ticket the value before the increment.
NextTicketId_postIncrement(counter) == counter

\* ++ticketCounter: the id of the ticket being issued.
NextTicketId(counter) == counter + 1

\* activeTickets.find(reg): the key found, or EndIt for activeTickets.end().
EndIt == "<end>"

\* Mutant of find: activeTickets.lower_bound(reg), the first key not less than reg.
find_lowerBound(tickets, reg) ==
    LET notLess == {k \in DOMAIN tickets : k = reg \/ (reg = "ABC-1" /\ k = "XYZ-2")}
    IN IF notLess = {} THEN EndIt
       ELSE IF reg \in notLess THEN reg ELSE CHOOSE k \in notLess : TRUE

find(tickets, reg) == IF reg \in DOMAIN tickets THEN reg ELSE EndIt

\* Mutant of VacatedFloors: every slot holding a vehicle of the ticket's
\* registration is vacated, on whatever floor.
VacatedFloors_byRegistration(fs, ticket) ==
    [f \in 1..Len(fs) |->
        LET held == {i \in 1..Len(fs[f].slots) :
                        /\ fs[f].slots[i].status = "OCCUPIED"
                        /\ fs[f].slots[i].currentVehicle.registration = ticket.vehicleReg}
        IN [fs[f] EXCEPT !.slots = [i \in 1..Len(fs[f].slots) |->
                                      IF i \in held THEN vacate(fs[f].slots[i]).slot
                                      ELSE fs[f].slots[i]],
                         !.occupiedSlots = fs[f].occupiedSlots - Cardinality(held)]]

\* floors[ticket->getFloor() - 1].vacateSlot(ticket->getSlotId()).
VacatedFloors(fs, ticket) ==
    [fs EXCEPT ![ticket.floor] = vacateSlot(fs[ticket.floor], ticket.slotId)]

\* Mutant of MakeVehicle: selector 3 builds a HandicappedVehicle on the Bike type.
MakeVehicle_handicappedOption(typeChoice, reg) ==
    IF typeChoice = 1 THEN Car(reg)
    ELSE IF typeChoice = 3 THEN HandicappedVehicle(reg, "BIKE")
    ELSE Bike(reg)

\* The vehicle parkVehicle builds from the selector.
MakeVehicle(typeChoice, reg) ==
    IF typeChoice = 1 THEN Car(reg) ELSE Bike(reg)

\* The floors (positions in the vector) on which the loop of parkVehicle would
\* succeed: a slot is found and ParkingFloor::parkVehicle takes it. (A found slot
\* is compatible, so ParkingFloor::parkVehicle never refuses it and the loop
\* never goes on with the moved-from vehicle.)
ParkableFloors(fs, vehicle) ==
    {f \in 1..Len(fs) :
        LET s == findAvailableSlot(fs[f], vehicle.type)
        IN s # 0 /\ FloorParkVehicle(fs[f], fs[f].slots[s].id, vehicle).ok}

\* The billing of unparkVehicle: hours, rate and charge of a closed ticket.
BillingRate(ticket) ==
    IF ticket.vehicleType = "CAR" THEN CAR_HOURLY_RATE ELSE BIKE_HOURLY_RATE

BillingHours(ticket) == Ceil(ParkingSeconds(ticket, now), SECONDS_PER_HOUR)

\* Mutant of BillingCharge: the cap of std::min forgotten.
BillingCharge_uncapped(ticket) == BillingHours(ticket) * BillingRate(ticket)

BillingCharge(ticket) == MinOf(BillingHours(ticket) * BillingRate(ticket), DAILY_MAX)

\* Mutant of AssignTicket: activeTickets.insert({reg, ticket}), which keeps the
\* ticket already stored under reg.
AssignTicket_insert(tickets, reg, ticket) ==
    IF reg \in DOMAIN tickets THEN tickets
    ELSE [r \in (DOMAIN tickets) \cup {reg} |-> IF r = reg THEN ticket ELSE tickets[r]]

\* Mutant of AssignTicket: the ticket is stored under its id, not its registration.
AssignTicket_keyedById(tickets, reg, ticket) ==
    [r \in (DOMAIN tickets) \cup {ToString(ticket.id)} |->
        IF r = ToString(ticket.id) THEN ticket ELSE tickets[r]]

\* activeTickets[reg] = ticket: the map afterwards.
AssignTicket(tickets, reg, ticket) ==
    [r \in (DOMAIN tickets) \cup {reg} |-> IF r = reg THEN ticket ELSE tickets[r]]

\* Mutant of NoSlotsAvailable: the ticket id is taken before the floors are searched.
NoSlotsAvailable_takesTicketId ==
    /\ out' = [NoOut EXCEPT !.msg = "No slots available."]
    /\ ticketCounter' = ticketCounter + 1
    /\ UNCHANGED <<floors, activeTickets, totalRevenue, now, issued, quoted>>

\* The end of parkVehicle when the loop over the floors found no slot.
NoSlotsAvailable ==
    /\ out' = [NoOut EXCEPT !.msg = "No slots available."]
    /\ UNCHANGED <<floors, activeTickets, ticketCounter, totalRevenue, now, issued, quoted>>

parkVehicle(typeChoice, reg) ==
    LET vehicle == MakeVehicle(typeChoice, reg)
        hits == ParkableFloors(floors, vehicle)
    IN IF hits # {}
       THEN LET f == Min(hits)
                s == findAvailableSlot(floors[f], vehicle.type)
                parked == FloorParkVehicle(floors[f], floors[f].slots[s].id, vehicle).floor
                slot == parked.slots[s]
                ticket == Ticket(NextTicketId(ticketCounter), reg,
                                 slot.currentVehicle.type, slot.floor, slot.id, now)
            IN /\ floors' = [floors EXCEPT ![f] = parked]
               /\ ticketCounter' = ticketCounter + 1
               /\ activeTickets' = AssignTicket(activeTickets, reg, ticket)
               /\ issued' = Append(issued, ticket.id)
               /\ out' = [NoOut EXCEPT !.msg = "Vehicle parked.", !.ticket = ticket.id]
               /\ UNCHANGED <<totalRevenue, now, quoted>>
       ELSE NoSlotsAvailable

unparkVehicle(reg) ==
    IF find(activeTickets, reg) = EndIt
    THEN /\ out' = [NoOut EXCEPT !.msg = "Vehicle not found."]
         /\ UNCHANGED <<floors, activeTickets, ticketCounter, totalRevenue, now,
                        issued, quoted>>
    ELSE LET it == find(activeTickets, reg)
             ticket == TicketExit(activeTickets[it], now)
             charge == BillingCharge(ticket)
         IN /\ totalRevenue' = totalRevenue + charge
            /\ floors' = VacatedFloors(floors, ticket)
            /\ activeTickets' = [r \in (DOMAIN activeTickets) \ {it} |-> activeTickets[r]]
            /\ out' = [NoOut EXCEPT !.msg = "Parking charge", !.charge = charge]
            /\ UNCHANGED <<ticketCounter, now, issued, quoted>>

\* The totals displayStatus sums over the first n floors.
RECURSIVE TotalUpTo(_, _)
TotalUpTo(fs, n) == IF n = 0 THEN 0 ELSE getTotalSlots(fs[n]) + TotalUpTo(fs, n - 1)

RECURSIVE OccupiedUpTo(_, _)
OccupiedUpTo(fs, n) == IF n = 0 THEN 0 ELSE getOccupiedSlots(fs[n]) + OccupiedUpTo(fs, n - 1)

StatusTotal(fs) == TotalUpTo(fs, Len(fs))

StatusOccupied(fs) == OccupiedUpTo(fs, Len(fs))

displayStatus ==
    /\ out' = [NoOut EXCEPT !.msg = "Total Slots",
                            !.total = StatusTotal(floors),
                            !.occupied = StatusOccupied(floors),
                            !.available = StatusTotal(floors) - StatusOccupied(floors)]
    /\ UNCHANGED <<floors, activeTickets, ticketCounter, totalRevenue, now, issued, quoted>>

\* The system clock moves between two operations; std::chrono::system_clock is the
\* adjustable wall clock, so a later reading may be smaller than an earlier one.
ClockChange(readings) ==
    /\ \E t \in readings : t # now /\ now' = t
    /\ UNCHANGED <<floors, activeTickets, ticketCounter, totalRevenue, out, issued, quoted>>

\* One iteration of the menu loop of main, for the registrations typed; parks
\* are taken while fewer than cap tickets have been issued.
Park(regs, cap) ==
    /\ ticketCounter < TICKET_COUNTER_INIT + cap
    /\ \E typeChoice \in TypeChoices, reg \in regs : parkVehicle(typeChoice, reg)

Unpark(regs) == \E reg \in regs : unparkVehicle(reg)

Next ==
    \/ Park(Registrations, MaxTickets)
    \/ Unpark(Registrations)
    \/ displayStatus
    \/ ClockChange(ClockReadings)

Spec == Init /\ [][Next]_vars

NextBilling ==
    \/ Park(BillingRegistrations, MaxTickets)
    \/ Unpark(BillingRegistrations)
    \/ displayStatus
    \/ ClockChange(BillingClockReadings)

SpecBilling == InitBilling /\ [][NextBilling]_vars

\* The facility main() builds, with one registration and a clock that stands still.
InitMain ==
    InitAt(ParkingSystem(MAIN_FLOORS, MAIN_CARS_PER_FLOOR, MAIN_BIKES_PER_FLOOR), ClockReadings)

NextMain ==
    \/ Park(BillingRegistrations, MaxMainTickets)
    \/ Unpark(BillingRegistrations)
    \/ displayStatus

SpecMain == InitMain /\ [][NextMain]_vars

\* Every vehicle the constructors of the Vehicle classes build for the
\* registrations regs; HandicappedVehicle takes any VehicleType as its base type.
Vehicles(regs) ==
    UNION {{Car(r), Bike(r), ElectricCar(r)} \cup {HandicappedVehicle(r, t) : t \in VehicleType} :
           r \in regs}

\* A call of getHourlyRate on the vehicle v.
Quote(v) ==
    /\ quoted' = quoted \cup {[vehicle |-> v, rate |-> getHourlyRate(v)]}
    /\ UNCHANGED <<floors, activeTickets, ticketCounter, totalRevenue, now, out, issued>>

\* The Vehicle classes used on their own: any vehicle is built and asked its rate.
NextRates == \E v \in Vehicles(Registrations) : Quote(v)

SpecRates == Init /\ [][NextRates]_vars

(* ============================= the claims ============================= *)

\* The (floor number, slot id) pairs of the slots of fs that are free and allow type.
FreeFor(fs, type) ==
    UNION {{<<fs[f].floorNumber, fs[f].slots[i].id>> : i \in
                {j \in 1..Len(fs[f].slots) :
                    fs[f].slots[j].status = "FREE" /\ fs[f].slots[j].allowedType = type}} :
           f \in 1..Len(fs)}

\* The slots of fs whose status is Occupied, as (position of floor, position of slot).
OccupiedSlots(fs) ==
    UNION {{<<f, i>> : i \in {j \in 1..Len(fs[f].slots) : fs[f].slots[j].status = "OCCUPIED"}} :
           f \in 1..Len(fs)}

\* p is the lowest floor, and within it the lowest slot id, of the pairs S.
LowestOf(p, S) == \A q \in S : p[1] < q[1] \/ (p[1] = q[1] /\ p[2] <= q[2])

\* Exactly the car slots of floor 1 are occupied.
OnlyFloorOneCarsOccupied(fs) ==
    \A f \in 1..Len(fs) : \A i \in 1..Len(fs[f].slots) :
        fs[f].slots[i].status = "OCCUPIED"
            <=> (fs[f].floorNumber = 1 /\ fs[f].slots[i].allowedType = "CAR")

\* This step issued a ticket: a successful park.
IsParkStep == issued' # issued

\* The ticket a successful park step issued.
IssuedTicket ==
    activeTickets'[CHOOSE r \in DOMAIN activeTickets' :
                       activeTickets'[r].id = issued'[Len(issued')]]

\* This step closed a ticket: a successful unpark.
IsUnparkStep ==
    /\ DOMAIN activeTickets' # DOMAIN activeTickets
    /\ DOMAIN activeTickets' \subseteq DOMAIN activeTickets

\* The ticket a successful unpark step closed, the vehicle in its slot, and the
\* seconds between its entry and the clock reading of the unpark.
ClosedTicket ==
    activeTickets[CHOOSE r \in DOMAIN activeTickets : r \notin DOMAIN activeTickets']

ClosedVehicle == floors[ClosedTicket.floor].slots[ClosedTicket.slotId].currentVehicle

ElapsedSeconds == now - ClosedTicket.entryTime

\* The state apart from what was printed and the clock.
core == <<floors, activeTickets, ticketCounter, totalRevenue, issued>>

\* C1: every successful park of a vehicle of category C places it in the free
\* slot allowing C with the lowest floor number and, within that floor, the
\* lowest slot id; in particular, when exactly the car slots of floor 1 are
\* occupied (CarsPerFloor Cars parked in an empty facility), the next Car
\* lands on floor 2, slot 1.
C1_LowestFreeSlot ==
    [][IsParkStep =>
        LET t == IssuedTicket
            free == FreeFor(floors, t.vehicleType)
            after == floors'[t.floor].slots[t.slotId]
        IN /\ <<t.floor, t.slotId>> \in free
           /\ LowestOf(<<t.floor, t.slotId>>, free)
           /\ after.status = "OCCUPIED"
           /\ after.currentVehicle.registration = t.vehicleReg
           /\ after.currentVehicle.type = t.vehicleType
           /\ (OnlyFloorOneCarsOccupied(floors) /\ t.vehicleType = "CAR")
                 => (t.floor = 2 /\ t.slotId = 1)]_vars

\* The instance of C1 in the facility of main (3 floors of 10 car and 5 bike
\* slots), under SpecMain: after 10 Cars are parked in the empty facility, the
\* 11th Car lands on floor 2, slot 1.
EleventhCarLandsOnFloorTwo ==
    [][(/\ IsParkStep
        /\ Len(issued) = MAIN_CARS_PER_FLOOR
        /\ OnlyFloorOneCarsOccupied(floors)
        /\ IssuedTicket.vehicleType = "CAR")
          => (IssuedTicket.floor = 2 /\ IssuedTicket.slotId = 1)]_vars

\* The 11th Car was parked on floor 2, slot 1 of the facility of main.
EleventhCarParked ==
    /\ Len(issued) = MAIN_CARS_PER_FLOOR + 1
    /\ \A i \in 1..MAIN_CARS_PER_FLOOR : floors[1].slots[i].currentVehicle.cls = "Car"
    /\ floors[2].slots[1].currentVehicle.cls = "Car"
    /\ out.msg = "Vehicle parked."

\* C1's case: with exactly the car slots of floor 1 occupied by the first
\* CarsPerFloor parks, the next Car was parked on floor 2, slot 1.
C1_Witness ==
    /\ out.msg = "Vehicle parked."
    /\ Len(issued) = CarsPerFloor + 1
    /\ \E r \in DOMAIN activeTickets :
          /\ activeTickets[r].id = out.ticket
          /\ activeTickets[r].vehicleType = "CAR"
          /\ activeTickets[r].floor = 2
          /\ activeTickets[r].slotId = 1
    /\ \A i \in 1..CarsPerFloor : floors[1].slots[i].status = "OCCUPIED"

\* C2: a park request for a category with no free compatible slot on any floor
\* changes no slot, occupied count, active ticket, ticket counter or revenue,
\* issues no ticket, and reports that no slot is available.
C2_FailedParkMutatesNothing ==
    [][\A typeChoice \in TypeChoices, reg \in Registrations :
          (/\ parkVehicle(typeChoice, reg)
           /\ FreeFor(floors, MakeVehicle(typeChoice, reg).type) = {})
             => (UNCHANGED core /\ out'.msg = "No slots available.")]_vars

\* C2's case: a park was refused with every bike slot occupied.
C2_Witness ==
    /\ out.msg = "No slots available."
    /\ FreeFor(floors, "BIKE") = {}
    /\ Len(issued) = NumFloors * BikesPerFloor

\* C3: an unpark request for a registration with no active ticket reports
\* 'not found' and changes no slot, occupied count, active ticket, ticket
\* counter or revenue.
C3_UnknownUnparkMutatesNothing ==
    [][\A reg \in Registrations :
          (unparkVehicle(reg) /\ reg \notin DOMAIN activeTickets)
             => (UNCHANGED core /\ out'.msg = "Vehicle not found.")]_vars

\* C3's case: an unpark was refused while another vehicle is parked.
C3_Witness ==
    /\ out.msg = "Vehicle not found."
    /\ DOMAIN activeTickets # {}
    /\ DOMAIN activeTickets # Registrations

\* C4: the ticket ids issued by successive successful parks are strictly
\* increasing and the first one is 1001, whatever failed parks and unparks
\* came in between.
C4_TicketIdsIncrease ==
    /\ \A i \in 1..Len(issued) : \A j \in 1..Len(issued) : i < j => issued[i] < issued[j]
    /\ issued # <<>> => issued[1] = 1001

\* C4's case: a second or later ticket was issued after an unpark collected revenue.
C4_Witness ==
    /\ Len(issued) >= 2
    /\ out.msg = "Vehicle parked."
    /\ out.ticket = issued[Len(issued)]
    /\ totalRevenue > 0

\* h is the elapsed time in hours rounded up to a whole hour.
IsCeilHours(h, seconds) ==
    h * SECONDS_PER_HOUR >= seconds /\ (h - 1) * SECONDS_PER_HOUR < seconds

\* The whole hours any two readings of the billing specification can be apart.
HourRange ==
    LET far == (CHOOSE t \in BillingClockReadings : \A u \in BillingClockReadings : u <= t)
                  \div SECONDS_PER_HOUR + 1
    IN (-far)..far

\* C5: the charge of every successful unpark is min(ceil(elapsed hours) x hourly
\* rate, 200), and so never exceeds 200.
C5_ChargeIsCappedCeiling ==
    [][IsUnparkStep =>
        /\ \E h \in HourRange :
              /\ IsCeilHours(h, ElapsedSeconds)
              /\ out'.charge = MinOf(h * getHourlyRate(ClosedVehicle), 200)
        /\ out'.charge <= 200]_vars

\* C5's case: an unpark was charged the daily maximum.
C5_Witness == out.msg = "Parking charge" /\ out.charge = 200

\* C6: an unpark immediately after the park (elapsed time at or near zero, under
\* one hour) charges exactly one hour at the category's rate, and no successful
\* unpark is charged less than one hour's rate.
C6_AtLeastOneHour ==
    [][IsUnparkStep =>
        /\ out'.charge >= MIN_CHARGE_HOURS * getHourlyRate(ClosedVehicle)
        /\ (ElapsedSeconds >= 0 /\ ElapsedSeconds < SECONDS_PER_HOUR)
              => out'.charge = getHourlyRate(ClosedVehicle)]_vars

\* C7: a successful park of registration r followed directly by the unpark of r
\* leaves the facility-wide occupied count at its value before the park.
C7_ParkThenUnparkRestoresOccupied ==
    [][IsParkStep =>
        /\ find(activeTickets', IssuedTicket.vehicleReg) # EndIt
        /\ StatusOccupied(VacatedFloors(floors', IssuedTicket)) = StatusOccupied(floors)
        /\ StatusOccupied(floors') = StatusOccupied(floors) + 1]_vars

\* C7's case: r was parked while r was already parked (its earlier slot is
\* still occupied by r's vehicle), and then unparked.
C7_Witness ==
    /\ out.msg = "Parking charge"
    /\ DOMAIN activeTickets = {}
    /\ Len(issued) = 2
    /\ StatusOccupied(floors) = 1

\* C8: the revenue total starts at 0, never decreases, grows by the charge at
\* every successful unpark and is changed by no other operation.
C8_RevenueAccumulates ==
    /\ (issued = <<>> => totalRevenue = 0)
    /\ [][/\ totalRevenue' >= totalRevenue
          /\ IsUnparkStep => totalRevenue' = totalRevenue + out'.charge
          /\ ~IsUnparkStep => totalRevenue' = totalRevenue]_vars

\* C9: no slot holds a vehicle whose category differs from the slot's allowed
\* category.
C9_SlotHoldsAllowedCategory ==
    \A f \in 1..Len(floors) : \A i \in 1..Len(floors[f].slots) :
        LET slot == floors[f].slots[i]
        IN slot.currentVehicle # NullVehicle => slot.currentVehicle.type = slot.allowedType

\* C9's case: a car slot holds a Car and a bike slot holds a Bike.
C9_Witness ==
    \E f \in 1..Len(floors), g \in 1..Len(floors) :
        \E i \in 1..Len(floors[f].slots), j \in 1..Len(floors[g].slots) :
            /\ floors[f].slots[i].allowedType = "CAR"
            /\ floors[f].slots[i].currentVehicle.cls = "Car"
            /\ floors[g].slots[j].allowedType = "BIKE"
            /\ floors[g].slots[j].currentVehicle.cls = "Bike"

\* C10: the status report agrees with the slots: the occupied count (the sum of
\* the floors' counters) is the number of slots whose status is Occupied, the
\* total is the number of slots, available = total - occupied, and
\* 0 <= occupied <= total.
C10_StatusMatchesSlots ==
    LET total == StatusTotal(floors)
        occ == StatusOccupied(floors)
    IN /\ occ = Cardinality(OccupiedSlots(floors))
       /\ total = NumFloors * (CarsPerFloor + BikesPerFloor)
       /\ 0 <= occ /\ occ <= total
       /\ out.msg = "Total Slots" =>
             /\ out.total = total
             /\ out.occupied = occ
             /\ out.available = total - occ

\* C10's case: a status report printed with slots occupied and slots vacated before it.
C10_Witness ==
    /\ out.msg = "Total Slots"
    /\ out.occupied >= 2
    /\ out.occupied < Len(issued)

\* The (floor number, slot id) pairs the active tickets reference.
ReferencedSlots(tickets) == {<<tickets[r].floor, tickets[r].slotId>> : r \in DOMAIN tickets}

\* The slot of fs with floor number and slot id p.
SlotAt(fs, p) == fs[p[1]].slots[p[2]]

\* C11: when registration r is parked successfully while r already has an
\* active ticket, the mapping afterwards has the same keys and holds under r
\* the ticket just issued (not the first one), the other registrations'
\* tickets are untouched, and the slot of r's first ticket is still Occupied
\* while no active ticket references it.
C11_ReparkOverwritesAndOrphans ==
    [][\A typeChoice \in TypeChoices, reg \in Registrations :
          (/\ parkVehicle(typeChoice, reg)
           /\ IsParkStep
           /\ reg \in DOMAIN activeTickets)
             => LET first == activeTickets[reg]
                    place == <<first.floor, first.slotId>>
                IN /\ DOMAIN activeTickets' = DOMAIN activeTickets
                   /\ activeTickets'[reg].id = issued'[Len(issued')]
                   /\ activeTickets'[reg].id # first.id
                   /\ activeTickets'[reg].vehicleReg = reg
                   /\ \A r \in DOMAIN activeTickets : r # reg => activeTickets'[r] = activeTickets[r]
                   /\ SlotAt(floors', place).status = "OCCUPIED"
                   /\ SlotAt(floors', place) = SlotAt(floors, place)
                   /\ place \notin ReferencedSlots(activeTickets')]_vars

\* C11's case: two parks of one registration with no unpark in between: one
\* active ticket, the second, and two occupied slots.
C11_Witness ==
    /\ out.msg = "Vehicle parked."
    /\ Len(issued) = 2
    /\ Cardinality(DOMAIN activeTickets) = 1
    /\ \A r \in DOMAIN activeTickets : activeTickets[r].id = issued[2]
    /\ Cardinality(OccupiedSlots(floors)) = 2
    /\ Cardinality(OccupiedSlots(floors) \ ReferencedSlots(activeTickets)) = 1

\* The start of the example scenario in the facility of main, for a stated
\* number of slots: 3 floors of 10 car and 5 bike slots each, that many slots
\* in total and none occupied.
MainFacilityStarts(totalSlots) ==
    /\ Len(floors) = 3
    /\ \A f \in 1..Len(floors) :
          /\ Cardinality({i \in 1..Len(floors[f].slots) : floors[f].slots[i].allowedType = "CAR"}) = 10
          /\ Cardinality({i \in 1..Len(floors[f].slots) : floors[f].slots[i].allowedType = "BIKE"}) = 5
    /\ StatusTotal(floors) = totalSlots
    /\ StatusOccupied(floors) = 0
    /\ OccupiedSlots(floors) = {}

\* The first park of the example scenario, of Car "ABC-1": ticket 1001 for
\* floor 1, slot 1, and one slot occupied afterwards.
FirstParkOfABC1 ==
    (issued = <<>> /\ parkVehicle(1, "ABC-1"))
        => /\ out'.msg = "Vehicle parked."
           /\ out'.ticket = 1001
           /\ DOMAIN activeTickets' = {"ABC-1"}
           /\ activeTickets'["ABC-1"].id = 1001
           /\ activeTickets'["ABC-1"].floor = 1
           /\ activeTickets'["ABC-1"].slotId = 1
           /\ floors'[1].slots[1].currentVehicle = Car("ABC-1")
           /\ OccupiedSlots(floors') = {<<1, 1>>}
           /\ StatusOccupied(floors') = 1

\* C12, as stated: the facility the program creates (3 floors of 10 car and 5
\* bike slots) has 135 slots in total (the number every status report prints)
\* and none occupied at the start, and parking Car "ABC-1" first yields ticket
\* 1001 at floor 1, slot 1 with one slot occupied.
C12_Stated135Slots ==
    /\ MainFacilityStarts(135)
    /\ [](out.msg = "Total Slots" => out.total = 135)
    /\ [][FirstParkOfABC1]_vars

\* C12, amended: the facility the program creates (3 floors of 10 car and 5
\* bike slots) has 45 slots in total (the number every status report prints)
\* and none occupied at the start, and parking Car "ABC-1" first yields ticket
\* 1001 at floor 1, slot 1 with one slot occupied.
C12_MainFacilityHas45Slots ==
    /\ MainFacilityStarts(45)
    /\ [](out.msg = "Total Slots" => out.total = 45)
    /\ [][FirstParkOfABC1]_vars

\* C12's case: Car "ABC-1" was parked first in the facility of main, and the
\* status report was then printed.
C12_Witness ==
    /\ Len(floors) = MAIN_FLOORS
    /\ issued = <<1001>>
    /\ DOMAIN activeTickets = {"ABC-1"}
    /\ floors[1].slots[1].currentVehicle = Car("ABC-1")
    /\ out.msg = "Total Slots"
    /\ out.occupied = 1
    /\ out.available = out.total - 1

\* The tickets of the mapping whose registration is reg.
TicketsOf(tickets, reg) == {k \in DOMAIN tickets : tickets[k].vehicleReg = reg}

\* C13: in every reachable state the active-ticket mapping holds at most one
\* ticket per registration string: each ticket in it is active and is stored
\* under its own registration, so no registration has two.
C13_OneActiveTicketPerRegistration ==
    /\ \A k \in DOMAIN activeTickets :
          activeTickets[k].isActive /\ activeTickets[k].vehicleReg = k
    /\ \A k \in DOMAIN activeTickets :
          Cardinality(TicketsOf(activeTickets, activeTickets[k].vehicleReg)) <= 1

\* C13's case: three parks by two registrations with no unpark: one of them
\* parked twice, and each has one active ticket.
C13_Witness ==
    /\ out.msg = "Vehicle parked."
    /\ Len(issued) = 3
    /\ Cardinality(OccupiedSlots(floors)) = 3
    /\ \A r \in Registrations : Cardinality(TicketsOf(activeTickets, r)) = 1

\* The category of the rate table a vehicle belongs to ("none" for a
\* HandicappedVehicle whose base type is neither Car nor Bike).
Category(v) ==
    CASE v.cls = "Car" -> "Car"
      [] v.cls = "Bike" -> "Bike"
      [] v.cls = "ElectricCar" -> "ElectricCar"
      [] v.cls = "HandicappedVehicle" /\ v.type = "CAR" -> "HandicappedCar"
      [] v.cls = "HandicappedVehicle" /\ v.type = "BIKE" -> "HandicappedBike"
      [] OTHER -> "none"

\* The fixed table of hourly rates.
RateTable ==
    [Car |-> 20, Bike |-> 10, ElectricCar |-> 16, HandicappedCar |-> 10, HandicappedBike |-> 5]

\* C14: the hourly rate of a vehicle of each of the five categories is the one
\* of the fixed table (Car 20, Bike 10, ElectricCar 16, HandicappedCar 10,
\* HandicappedBike 5), and two vehicles of one category have the same rate
\* whatever their registrations.
C14_RatesMatchTable ==
    /\ \A q \in quoted :
          Category(q.vehicle) \in DOMAIN RateTable => q.rate = RateTable[Category(q.vehicle)]
    /\ \A q1 \in quoted, q2 \in quoted :
          (Category(q1.vehicle) \in DOMAIN RateTable /\ Category(q1.vehicle) = Category(q2.vehicle))
             => q1.rate = q2.rate

\* C14's case: the rate of a vehicle of every category of the table was asked,
\* for each registration.
C14_Witness ==
    \A c \in DOMAIN RateTable : \A r \in Registrations :
        \E q \in quoted : Category(q.vehicle) = c /\ q.vehicle.registration = r

\* C15: a successful unpark of registration r frees the slot (floor, slot id)
\* recorded on r's ticket and empties it, lowers that floor's occupied count by
\* one, and removes r's ticket from the mapping (so that a second unpark of r
\* finds no ticket and reports 'not found'); every other slot, every other
\* floor, every other active ticket and the ticket-id counter are unchanged.
C15_UnparkFreesOnlyItsSlot ==
    [][\A reg \in Registrations :
          (unparkVehicle(reg) /\ reg \in DOMAIN activeTickets)
             => LET t == activeTickets[reg]
                    place == <<t.floor, t.slotId>>
                IN /\ t.floor \in 1..Len(floors)
                   /\ t.slotId \in 1..Len(floors[t.floor].slots)
                   /\ out'.msg = "Parking charge"
                   /\ SlotAt(floors', place).status = "FREE"
                   /\ SlotAt(floors', place).currentVehicle = NullVehicle
                   /\ floors'[t.floor].occupiedSlots = floors[t.floor].occupiedSlots - 1
                   /\ DOMAIN activeTickets' = (DOMAIN activeTickets) \ {reg}
                   /\ find(activeTickets', reg) = EndIt
                   /\ \A f \in 1..Len(floors) : \A i \in 1..Len(floors[f].slots) :
                         <<f, i>> # place => floors'[f].slots[i] = floors[f].slots[i]
                   /\ \A f \in 1..Len(floors) : f # t.floor => floors'[f] = floors[f]
                   /\ \A r \in DOMAIN activeTickets' : activeTickets'[r] = activeTickets[r]
                   /\ ticketCounter' = ticketCounter]_vars

\* C15's case: an unpark freed slot 1 of floor 1 while slot 2 of that floor
\* stays occupied under the other registration's ticket.
C15_Witness ==
    /\ out.msg = "Parking charge"
    /\ floors[1].slots[1].status = "FREE"
    /\ floors[1].slots[2].status = "OCCUPIED"
    /\ ReferencedSlots(activeTickets) = {<<1, 2>>}
    /\ Len(issued) = 2

\* C16: in every reachable state each slot's status is Free or Occupied (never
\* Reserved or Maintenance) and the slot holds a vehicle exactly when it is
\* Occupied; a status changes only from Free to Occupied in a step that issues
\* a ticket (a successful park) and from Occupied to Free in a step that closes
\* one (a successful unpark).
C16_FreeOccupiedOnly ==
    /\ [](\A f \in 1..Len(floors) : \A i \in 1..Len(floors[f].slots) :
             /\ floors[f].slots[i].status \in {"FREE", "OCCUPIED"}
             /\ floors[f].slots[i].status \in SlotStatus
             /\ floors[f].slots[i].currentVehicle # NullVehicle
                   <=> floors[f].slots[i].status = "OCCUPIED")
    /\ [][\A f \in 1..Len(floors) : \A i \in 1..Len(floors[f].slots) :
             floors'[f].slots[i].status # floors[f].slots[i].status
                => \/ /\ floors[f].slots[i].status = "FREE"
                      /\ floors'[f].slots[i].status = "OCCUPIED"
                      /\ IsParkStep
                      /\ out'.msg = "Vehicle parked."
                   \/ /\ floors[f].slots[i].status = "OCCUPIED"
                      /\ floors'[f].slots[i].status = "FREE"
                      /\ IsUnparkStep
                      /\ out'.msg = "Parking charge"]_vars

\* C16's case: after a park, the unpark of that vehicle and another park, one
\* slot is Occupied and holds the Car just parked, and every other slot is Free.
C16_Witness ==
    /\ out.msg = "Vehicle parked."
    /\ Len(issued) = 2
    /\ OccupiedSlots(floors) = {<<1, 1>>}
    /\ ReferencedSlots(activeTickets) = {<<1, 1>>}
    /\ floors[1].slots[1].currentVehicle.cls = "Car"

\* The positions in floor.slots of the slots whose id is slotId.
SlotsWithId(floor, slotId) == {i \in 1..Len(floor.slots) : floor.slots[i].id = slotId}

\* C17: in every reachable state every active ticket references a floor of the
\* facility and a slot id of that floor, the slot is Occupied and holds a
\* vehicle with the ticket's registration and category, and the release unpark
\* performs for it changes the floor (it finds the occupied slot); two distinct
\* active tickets never reference the same slot.
C17_TicketsReferenceOccupiedSlots ==
    /\ \A r \in DOMAIN activeTickets :
          LET t == activeTickets[r]
          IN /\ t.floor \in 1..Len(floors)
             /\ floors[t.floor].floorNumber = t.floor
             /\ Cardinality(SlotsWithId(floors[t.floor], t.slotId)) = 1
             /\ \A i \in SlotsWithId(floors[t.floor], t.slotId) :
                   /\ floors[t.floor].slots[i].status = "OCCUPIED"
                   /\ floors[t.floor].slots[i].currentVehicle.registration = t.vehicleReg
                   /\ floors[t.floor].slots[i].currentVehicle.type = t.vehicleType
             /\ VacatedFloors(floors, t) # floors
    /\ \A r1 \in DOMAIN activeTickets, r2 \in DOMAIN activeTickets :
          r1 # r2 => <<activeTickets[r1].floor, activeTickets[r1].slotId>>
                        # <<activeTickets[r2].floor, activeTickets[r2].slotId>>

\* C17's case: two active tickets with the same slot id on different floors,
\* next to an occupied slot no ticket references.
C17_Witness ==
    /\ ReferencedSlots(activeTickets) = {<<1, 1>>, <<2, 1>>}
    /\ Cardinality(DOMAIN activeTickets) = 2
    /\ OccupiedSlots(floors) = {<<1, 1>>, <<1, 2>>, <<2, 1>>}

\* The slots of fs that are Occupied while no ticket of the mapping references them.
OrphanedSlots(fs, tickets) == OccupiedSlots(fs) \ ReferencedSlots(tickets)

\* C18: a slot that is Occupied while no active ticket references it is, after
\* any step, still Occupied with the same vehicle and still referenced by no
\* active ticket; so it stays Occupied in every later state, and the slots
\* free for parking never again include it.
C18_OrphanedSlotStaysOccupied ==
    [][\A p \in OrphanedSlots(floors, activeTickets) :
          /\ p \in OrphanedSlots(floors', activeTickets')
          /\ SlotAt(floors', p) = SlotAt(floors, p)
          /\ p \notin FreeFor(floors', SlotAt(floors, p).allowedType)]_vars

\* C18's case: with a slot orphaned, the unpark of the registration whose
\* vehicle it holds was tried after its ticket was closed, and found nothing.
C18_Witness ==
    /\ out.msg = "Vehicle not found."
    /\ DOMAIN activeTickets = {}
    /\ OrphanedSlots(floors, activeTickets) # {}
    /\ \A p \in OrphanedSlots(floors, activeTickets) :
          SlotAt(floors, p).currentVehicle.registration = "ABC-1"

\* The vehicles held by the slots of fs.
ParkedVehicles(fs) ==
    {fs[p[1]].slots[p[2]].currentVehicle : p \in OccupiedSlots(fs)}

\* C19: every vehicle a park puts into a slot is the Car of the registration
\* typed when the selector is 1 and the Bike of it for any other selector, so
\* every parked vehicle is a Car or a Bike; and at every successful unpark the
\* rate of the billing (20 when the ticket's category is Car, otherwise 10) is
\* the hourly rate of the vehicle in the ticket's slot.
C19_BillingRateIsVehiclesRate ==
    /\ [](\A v \in ParkedVehicles(floors) : v.cls \in {"Car", "Bike"})
    /\ [][\A typeChoice \in TypeChoices, reg \in Registrations :
             (parkVehicle(typeChoice, reg) /\ IsParkStep)
                => ParkedVehicles(floors') \ ParkedVehicles(floors)
                      \subseteq {IF typeChoice = 1 THEN Car(reg) ELSE Bike(reg)}]_vars
    /\ [][IsUnparkStep =>
             /\ BillingRate(ClosedTicket) = (IF ClosedTicket.vehicleType = "CAR" THEN 20 ELSE 10)
             /\ BillingRate(ClosedTicket) = getHourlyRate(ClosedVehicle)
             /\ ClosedVehicle.registration = ClosedTicket.vehicleReg]_vars

\* C19's case: a Bike was billed one hour at its rate while a Car is parked.
C19_Witness ==
    /\ out.msg = "Parking charge"
    /\ out.charge = BIKE_HOURLY_RATE
    /\ \E v \in ParkedVehicles(floors) : v.cls = "Car"
    /\ FreeFor(floors, "BIKE") = FreeFor(ParkingSystem(NumFloors, CarsPerFloor, BikesPerFloor), "BIKE")

====
